---------------------------- MODULE Spec2Model ----------------------------
(***************************************************************************)
(* A model of xela: the superblock codec (package crypto) under SpecCodec, *)
(* the encrypting vault decorator (package cryptvault) under SpecVault,    *)
(* and the desktop launcher (package main) under SpecLauncher.             *)
(*                                                                         *)
(* Byte slices are sequences over 0..255.  A Go slice whose capacity       *)
(* matters is a record [len, cap, arr], arr being the backing array up to  *)
(* its last byte written (the bytes after it are zero, as make left them). *)
(* A runtime panic is the outcome "panic" of the call that raised it; the  *)
(* caller may recover and go on using the objects, so the objects' fields  *)
(* are kept as the panicking call left them.                               *)
(***************************************************************************)
EXTENDS Integers, Sequences, FiniteSets, TLC

VARIABLES
    xdec,       \* the XelaDecrypter: Nil, or [b |-> key, cbc |-> Nil or a CBC mode]
    xenc,       \* the XelaEncrypter: [b |-> key, cbc |-> Nil or a CBC mode]
    settable,   \* whether the build's CBC mode satisfies the settableIV interface
    cop,        \* the last codec call: its name, arguments and results
    ccalls,     \* number of codec calls made so far
    store,      \* the backend: its items in creation order, item i having inner ref i
    vault,      \* the *Vault the last Open returned: Nil, or [inner, enc, dec]
    held,       \* the outer ItemRefs the caller has been handed
    vop,        \* the last vault call: its name, arguments and results
    vcalls,     \* number of vault calls and backend changes so far
    ghost,      \* history: what was created, written and opened through the vault
    state,      \* the launcher's atomic runningState
    pc,         \* where main, the serve-error goroutine and the server goroutine are
    loc,        \* the launcher's locals: address, errors, the goroutine's canceled
    view        \* the webview: the address navigated to and the SetHtml calls made

cvars == <<xdec, xenc, cop, ccalls>>

vvars == <<store, vault, held, vop, vcalls, ghost>>

lvars == <<state, pc, loc, view>>

vars == <<xdec, xenc, settable, cop, ccalls, store, vault, held, vop, vcalls, ghost,
          state, pc, loc, view>>

Nil == [nil |-> TRUE]

-----------------------------------------------------------------------------
(* Sizes fixed by the on-disk format. *)

SuperblockSize == 256
ContentSize == 239
IVSize == 16
KeySize == 32
BlockSize == 16

(* Bounds of the exploration. *)

MaxCalls == 2

Byte == 0 .. 255

-----------------------------------------------------------------------------
(* Test data: byte strings determined by a seed. *)

Pattern(seed, n) == [i \in 1 .. n |-> (seed * 37 + i * 11) % 256]

KeyOf(seed, n) == [i \in 1 .. n |-> (seed * 53 + i * 7 + 1) % 256]

Seeds == {1, 2}

(* Plaintext lengths around the chunk size, and the argument sizes of      *)
(* DecryptSuperblock around the mandated ones.                             *)
PlainLens == {0, 1, 2, 238, 239, 240}
SrcLens == {255, 256, 257}
DstLens == {238, 239, 240}
KeyLens == {31, 32, 33}
SpareCaps == {0, 17}

-----------------------------------------------------------------------------
(* The block cipher and the CBC mode (crypto/aes, crypto/cipher).  The     *)
(* cipher is a keyed permutation of 16-byte blocks.                        *)

RECURSIVE XorBits(_, _, _)
XorBits(a, b, n) ==
    IF n = 0 THEN 0
    ELSE (((a % 2) + (b % 2)) % 2) + (2 * XorBits(a \div 2, b \div 2, n - 1))

Xor(a, b) == XorBits(a, b, 8)

XorBlock(A, B) == [i \in 1 .. BlockSize |-> Xor(A[i], B[i])]

EncryptBlock(k, B) ==
    [i \in 1 .. BlockSize |->
        (B[(i % BlockSize) + 1] + k[i] + 3 * k[i + BlockSize]) % 256]

DecryptBlock(k, C) ==
    [j \in 1 .. BlockSize |->
        LET i == ((j + BlockSize - 2) % BlockSize) + 1
        IN  (C[i] + 1024 - k[i] - 3 * k[i + BlockSize]) % 256]

BlockAt(s, i) == SubSeq(s, (i - 1) * BlockSize + 1, i * BlockSize)

RECURSIVE CBCEncryptFrom(_, _, _, _)
CBCEncryptFrom(k, prev, src, i) ==
    IF i * BlockSize > Len(src) THEN << >>
    ELSE LET c == EncryptBlock(k, XorBlock(BlockAt(src, i), prev))
         IN  c \o CBCEncryptFrom(k, c, src, i + 1)

CBCEncrypt(k, iv, src) == CBCEncryptFrom(k, iv, src, 1)

RECURSIVE CBCDecryptFrom(_, _, _, _)
CBCDecryptFrom(k, prev, src, i) ==
    IF i * BlockSize > Len(src) THEN << >>
    ELSE LET c == BlockAt(src, i)
         IN  XorBlock(DecryptBlock(k, c), prev) \o CBCDecryptFrom(k, c, src, i + 1)

CBCDecrypt(k, iv, src) == CBCDecryptFrom(k, iv, src, 1)

(* cipher.NewCBCDecrypter / NewCBCEncrypter: a mode object holding its IV. *)
NewCBC(b, iv) == [iv |-> iv]

(* BlockMode.CryptBlocks(dst, src): panics unless src is whole blocks and  *)
(* dst is at least as long; else writes len(src) bytes at the start of dst *)
(* and keeps the last ciphertext block as the IV of the next call.         *)
CryptBlocksFaults(dstLen, srcLen) ==
    \/ srcLen % BlockSize # 0
    \/ dstLen < srcLen

LastBlock(s, iv) == IF Len(s) = 0 THEN iv ELSE BlockAt(s, Len(s) \div BlockSize)

Overwrite(dst, out) ==
    [i \in 1 .. Len(dst) |-> IF i <= Len(out) THEN out[i] ELSE dst[i]]

-----------------------------------------------------------------------------
(* NewXelaDecrypter(key) *)

NewXelaDecrypter(key) ==
    IF Len(key) # KeySize
    THEN [x |-> Nil, ret |-> "err_key"]
    ELSE [x |-> [b |-> key, cbc |-> Nil], ret |-> "nil"]

SetIVRefusing(cbc, iv) ==
    IF Len(iv) = IVSize
    THEN [cbc |-> cbc, err |-> "err_iv"]
    ELSE [cbc |-> [cbc EXCEPT !.iv = iv], err |-> "nil"]

(* s.SetIV(iv) of a mode that satisfies settableIV. *)
SetIV(cbc, iv) ==
    IF Len(iv) # IVSize
    THEN [cbc |-> cbc, err |-> "err_iv"]
    ELSE [cbc |-> [cbc EXCEPT !.iv = iv], err |-> "nil"]

(* The mode selection shared by both codecs: a fresh mode when none is     *)
(* cached or the cached one has no SetIV, else the cached one with its IV  *)
(* reset.  canSet is the outcome of the type assertion x.cbc.(settableIV). *)
SelectMode(x, canSet, iv) ==
    IF x.cbc = Nil THEN [cbc |-> NewCBC(x.b, iv), err |-> "nil"]
    ELSE IF canSet THEN SetIV(x.cbc, iv)
    ELSE [cbc |-> NewCBC(x.b, iv), err |-> "nil"]

DecryptSuperblockAndSizes(x, canSet, plaintext, ciphertext) ==
    IF Len(ciphertext) # SuperblockSize /\ Len(plaintext) # ContentSize
    THEN [x |-> x, plaintext |-> plaintext, ret |-> "err_size"]
    ELSE
      LET iv  == SubSeq(ciphertext, 1, IVSize)
          m   == SelectMode(x, canSet, iv)
          src == SubSeq(ciphertext, IVSize + 1, Len(ciphertext))
      IN  IF m.err # "nil"
          THEN [x |-> x, plaintext |-> plaintext, ret |-> m.err]
          ELSE IF CryptBlocksFaults(Len(plaintext), Len(src))
          THEN [x |-> [x EXCEPT !.cbc = m.cbc], plaintext |-> plaintext,
                ret |-> "panic"]
          ELSE [x |-> [x EXCEPT !.cbc = [iv |-> LastBlock(src, m.cbc.iv)]],
                plaintext |-> Overwrite(plaintext, CBCDecrypt(x.b, m.cbc.iv, src)),
                ret |-> "nil"]

(* x.DecryptSuperblock(plaintext, ciphertext) *)
DecryptSuperblock(x, canSet, plaintext, ciphertext) ==
    IF Len(ciphertext) # SuperblockSize \/ Len(plaintext) # ContentSize
    THEN [x |-> x, plaintext |-> plaintext, ret |-> "err_size"]
    ELSE
      LET iv  == SubSeq(ciphertext, 1, IVSize)
          m   == SelectMode(x, canSet, iv)
          src == SubSeq(ciphertext, IVSize + 1, Len(ciphertext))
      IN  IF m.err # "nil"
          THEN [x |-> x, plaintext |-> plaintext, ret |-> m.err]
          ELSE IF CryptBlocksFaults(Len(plaintext), Len(src))
          THEN [x |-> [x EXCEPT !.cbc = m.cbc], plaintext |-> plaintext,
                ret |-> "panic"]
          ELSE [x |-> [x EXCEPT !.cbc = [iv |-> LastBlock(src, m.cbc.iv)]],
                plaintext |-> Overwrite(plaintext, CBCDecrypt(x.b, m.cbc.iv, src)),
                ret |-> "nil"]

-----------------------------------------------------------------------------
(* x.Encrypt(ciphertext, plaintext) *)

Zeros(n) == [i \in 1 .. n |-> 0]

(* make([]byte, len, cap) *)
MakeSlice(len, cap) == [len |-> len, cap |-> cap, arr |-> << >>]

ByteAt(c, i) == IF i <= Len(c.arr) THEN c.arr[i] ELSE 0

(* A slice expression s[lo:hi] is in range iff 0 <= lo <= hi <= cap(s). *)
SliceFaults(lo, hi, cap) == ~(0 <= lo /\ lo <= hi /\ hi <= cap)

(* rand.Read(iv): the bytes the random source delivers for a block. *)
RandIV(seed, blockIndex) == Pattern(seed + 5 * blockIndex + 101, IVSize)

WriteAt(arr, lo, out) ==
    LET n == IF lo + Len(out) > Len(arr) THEN lo + Len(out) ELSE Len(arr)
    IN  [i \in 1 .. n |->
            IF i > lo /\ i <= lo + Len(out) THEN out[i - lo]
            ELSE IF i <= Len(arr) THEN arr[i] ELSE 0]

BlocksNeeded(n) == (n \div ContentSize) + (n % ContentSize)

RECURSIVE EncryptFromZeroIV(_, _, _, _, _, _, _, _)
EncryptFromZeroIV(x, canSet, c, plaintext, rnd, blocksNeeded, blockIndex, ivs) ==
    IF blockIndex >= blocksNeeded
    THEN [x |-> x, c |-> c, ret |-> "nil", ivs |-> ivs, done |-> blockIndex]
    ELSE
      LET iv  == IF rnd.failAt = blockIndex THEN Zeros(IVSize)
                 ELSE RandIV(rnd.seed, blockIndex)
          m   == SelectMode(x, canSet, iv)
          x1  == [x EXCEPT !.cbc = m.cbc]
          dlo == blockIndex * SuperblockSize + IVSize
          dhi == blockIndex * SuperblockSize
          slo == blockIndex * ContentSize
          shi == (blockIndex + 1) * ContentSize
          drawn == Append(ivs, iv)
      IN  IF m.err # "nil"
          THEN [x |-> x, c |-> c, ret |-> m.err, ivs |-> drawn, done |-> blockIndex]
          ELSE IF \/ SliceFaults(dlo, dhi, c.cap)
                  \/ SliceFaults(slo, shi, plaintext.cap)
                  \/ CryptBlocksFaults(dhi - dlo, shi - slo)
          THEN [x |-> x1, c |-> c, ret |-> "panic", ivs |-> drawn, done |-> blockIndex]
          ELSE
            LET src == [i \in 1 .. shi - slo |-> ByteAt(plaintext, slo + i)]
                out == CBCEncrypt(x.b, m.cbc.iv, src)
            IN  EncryptFromZeroIV([x1 EXCEPT !.cbc = [iv |-> LastBlock(out, m.cbc.iv)]],
                                  canSet, [c EXCEPT !.arr = WriteAt(@, dlo, out)],
                                  plaintext, rnd, blocksNeeded, blockIndex + 1, drawn)

(* The loop of Encrypt from blockIndex on.  rnd = [seed, failAt]: the      *)
(* random source fails at its read for block failAt (never, when -1).      *)
RECURSIVE EncryptFrom(_, _, _, _, _, _, _, _)
EncryptFrom(x, canSet, c, plaintext, rnd, blocksNeeded, blockIndex, ivs) ==
    IF blockIndex >= blocksNeeded
    THEN [x |-> x, c |-> c, ret |-> "nil", ivs |-> ivs, done |-> blockIndex]
    ELSE IF rnd.failAt = blockIndex
    THEN [x |-> x, c |-> c, ret |-> "err_rand", ivs |-> ivs, done |-> blockIndex]
    ELSE
      LET iv  == RandIV(rnd.seed, blockIndex)
          m   == SelectMode(x, canSet, iv)
          x1  == [x EXCEPT !.cbc = m.cbc]
          dlo == blockIndex * SuperblockSize + IVSize
          dhi == blockIndex * SuperblockSize
          slo == blockIndex * ContentSize
          shi == (blockIndex + 1) * ContentSize
          drawn == Append(ivs, iv)
      IN  IF m.err # "nil"
          THEN [x |-> x, c |-> c, ret |-> m.err, ivs |-> drawn, done |-> blockIndex]
          ELSE IF \/ SliceFaults(dlo, dhi, c.cap)
                  \/ SliceFaults(slo, shi, plaintext.cap)
                  \/ CryptBlocksFaults(dhi - dlo, shi - slo)
          THEN [x |-> x1, c |-> c, ret |-> "panic", ivs |-> drawn, done |-> blockIndex]
          ELSE
            LET src == [i \in 1 .. shi - slo |-> ByteAt(plaintext, slo + i)]
                out == CBCEncrypt(x.b, m.cbc.iv, src)
            IN  EncryptFrom([x1 EXCEPT !.cbc = [iv |-> LastBlock(out, m.cbc.iv)]],
                            canSet, [c EXCEPT !.arr = WriteAt(@, dlo, out)],
                            plaintext, rnd, blocksNeeded, blockIndex + 1, drawn)

Encrypt(x, canSet, plaintext, rnd) ==
    LET blocksNeeded == BlocksNeeded(plaintext.len)
        c == MakeSlice(0, blocksNeeded * SuperblockSize)
        r == EncryptFrom(x, canSet, c, plaintext, rnd, blocksNeeded, 0, << >>)
    IN  [x |-> r.x, c |-> r.c, ret |-> r.ret, ivs |-> r.ivs, done |-> r.done,
         blocksNeeded |-> blocksNeeded]

-----------------------------------------------------------------------------
(* Decrypting a whole file: the ciphertext must be whole superblocks; each *)
(* is decrypted with DecryptSuperblock, its length byte read, and that     *)
(* many content bytes kept; a length byte above 239 is corruption.         *)

LengthByte(key, superblock) ==
    CBCDecrypt(key, SubSeq(superblock, 1, IVSize),
               SubSeq(superblock, IVSize + 1, IVSize + BlockSize))[1]

RECURSIVE DecryptFileFrom(_, _, _, _, _)
DecryptFileFrom(x, canSet, ciphertext, i, acc) ==
    IF i * SuperblockSize >= Len(ciphertext)
    THEN [x |-> x, data |-> acc, ret |-> "nil"]
    ELSE
      LET sb == SubSeq(ciphertext, i * SuperblockSize + 1, (i + 1) * SuperblockSize)
          r  == DecryptSuperblock(x, canSet, Zeros(ContentSize), sb)
          n  == LengthByte(x.b, sb)
      IN  IF r.ret # "nil" THEN [x |-> r.x, data |-> << >>, ret |-> r.ret]
          ELSE IF n > ContentSize
          THEN [x |-> r.x, data |-> << >>, ret |-> "err_corrupt"]
          ELSE DecryptFileFrom(r.x, canSet, ciphertext, i + 1,
                               acc \o SubSeq(r.plaintext, 1, n))

DecryptFile(x, canSet, ciphertext) ==
    IF Len(ciphertext) % SuperblockSize # 0
    THEN [x |-> x, data |-> << >>, ret |-> "err_corrupt"]
    ELSE DecryptFileFrom(x, canSet, ciphertext, 0, << >>)

-----------------------------------------------------------------------------
(* The on-disk superblock: the IV, then the CBC encryption of one length   *)
(* byte followed by 239 content bytes.                                     *)

PadTo(chunk, n) == chunk \o Zeros(n - Len(chunk))

PlainBlock(chunk) == <<Len(chunk)>> \o PadTo(chunk, ContentSize)

Superblock(key, iv, chunk) == iv \o CBCEncrypt(key, iv, PlainBlock(chunk))

Resize(s, n) == [i \in 1 .. n |-> IF i <= Len(s) THEN s[i] ELSE 0]

(* The ciphertext arguments tried: arbitrary bytes, or a well-formed       *)
(* superblock under the decrypter's key, cut or extended to the length.    *)
SrcKinds == {"pattern", "valid"}

ValidSuperblocks ==
    [k \in Seeds, s \in Seeds |->
        Superblock(KeyOf(k, KeySize), Pattern(s, IVSize), Pattern(s + 1, 5))]

SeedOfKey(key) == CHOOSE k \in Seeds : KeyOf(k, KeySize) = key

SrcBytes(kind, seed, n, key) ==
    IF kind = "valid"
    THEN Resize(ValidSuperblocks[SeedOfKey(key), seed], n)
    ELSE Pattern(seed, n)

-----------------------------------------------------------------------------
(* The launcher's running state, and the launcher before main has begun.   *)

runningStateReady == 0
runningStateReadyDegraded == 1
runningStateRunning == 2
runningStateRunningDegraded == 3

LauncherNotStarted ==
    /\ state = runningStateReady
    /\ pc = [main |-> "begin", handler |-> "none", serve |-> "none"]
    /\ loc = [addr |-> 0, err |-> "nil", tries |-> 0, recv |-> "nil",
              canceled |-> FALSE, swapped |-> FALSE]
    /\ view = [url |-> 0, html |-> << >>]

-----------------------------------------------------------------------------
(* The codec's operations as steps. *)

(* The last call is recorded by the description of its arguments (the      *)
(* bytes follow from it) and by its results; cached tells whether the      *)
(* decrypter held a mode from an earlier call when the call was made.      *)
NoCall ==
    [op |-> "none", ret |-> "nil",
     src |-> [kind |-> "pattern", seed |-> 0, n |-> 0],
     dstIn |-> [seed |-> 0, n |-> 0],
     dstSame |-> TRUE, dst |-> << >>, cached |-> FALSE,
     pt |-> [seed |-> 0, n |-> 0, spare |-> 0],
     c |-> MakeSlice(0, 0), blocksNeeded |-> 0, ivs |-> << >>,
     done |-> 0, failAt |-> -1]

SrcArg(d, key) == SrcBytes(d.kind, d.seed, d.n, key)

DstArg(d) == Pattern(d.seed + 7, d.n)

PlainArg(d) == [len |-> d.n, cap |-> d.n + d.spare, arr |-> Pattern(d.seed, d.n)]

CodecInit ==
    /\ \E s \in Seeds :
          /\ xdec = NewXelaDecrypter(KeyOf(s, KeySize)).x
          /\ xenc = [b |-> KeyOf(s, KeySize), cbc |-> Nil]
    /\ settable \in BOOLEAN
    /\ cop = NoCall
    /\ ccalls = 0
    /\ store = << >> /\ vault = Nil /\ held = {} /\ vcalls = 0
    /\ vop = [op |-> "none"] /\ ghost = [pws |-> {}]
    /\ LauncherNotStarted

CallNewXelaDecrypter ==
    /\ ccalls < MaxCalls
    /\ \E s \in Seeds, n \in KeyLens :
          LET r == NewXelaDecrypter(KeyOf(s, n))
          IN  /\ xdec' = IF r.ret = "nil" THEN r.x ELSE xdec
              /\ cop' = [NoCall EXCEPT !.op = "NewXelaDecrypter", !.ret = r.ret]
    /\ ccalls' = ccalls + 1
    /\ UNCHANGED <<xenc, settable>>
    /\ UNCHANGED <<vvars, lvars>>

CallDecryptSuperblock ==
    /\ ccalls < MaxCalls
    /\ \E kind \in SrcKinds, s \in Seeds, sn \in SrcLens, dn \in DstLens :
          LET src == [kind |-> kind, seed |-> s, n |-> sn]
              dst == [seed |-> s, n |-> dn]
              r   == DecryptSuperblock(xdec, settable, DstArg(dst), SrcArg(src, xdec.b))
              same == r.plaintext = DstArg(dst)
          IN  /\ xdec' = r.x
              /\ cop' = [NoCall EXCEPT !.op = "DecryptSuperblock", !.ret = r.ret,
                                       !.src = src, !.dstIn = dst,
                                       !.dstSame = same,
                                       !.cached = xdec.cbc # Nil,
                                       !.dst = IF same THEN << >> ELSE r.plaintext]
    /\ ccalls' = ccalls + 1
    /\ UNCHANGED <<xenc, settable>>
    /\ UNCHANGED <<vvars, lvars>>

CallEncrypt ==
    /\ ccalls < MaxCalls
    /\ \E n \in PlainLens, spare \in SpareCaps, s \in Seeds, failAt \in -1 .. 1 :
          LET pt == [seed |-> s, n |-> n, spare |-> spare]
              r  == Encrypt(xenc, settable, PlainArg(pt), [seed |-> s, failAt |-> failAt])
          IN  /\ xenc' = r.x
              /\ cop' = [NoCall EXCEPT !.op = "Encrypt", !.ret = r.ret,
                                       !.pt = pt, !.c = r.c,
                                       !.blocksNeeded = r.blocksNeeded,
                                       !.ivs = r.ivs, !.done = r.done,
                                       !.failAt = failAt]
    /\ ccalls' = ccalls + 1
    /\ UNCHANGED <<xdec, settable>>
    /\ UNCHANGED <<vvars, lvars>>

CodecNext ==
    \/ CallNewXelaDecrypter
    \/ CallDecryptSuperblock
    \/ CallEncrypt

SpecCodec == CodecInit /\ [][CodecNext]_vars

-----------------------------------------------------------------------------
(* Properties of the codec, checked under SpecCodec. *)

Ceil(n, d) == (n + d - 1) \div d

Bytes(slice) == [i \in 1 .. slice.len |-> ByteAt(slice, i)]

(* The buffer Encrypt allocated, all of its capacity. *)
Produced(slice) == [i \in 1 .. slice.cap |-> ByteAt(slice, i)]

RandomSourceWorked == cop.ret # "err_rand"

Chunk(pt, i) ==
    LET hi == IF (i + 1) * ContentSize < pt.len THEN (i + 1) * ContentSize ELSE pt.len
    IN  [j \in 1 .. hi - i * ContentSize |-> ByteAt(pt, i * ContentSize + j)]

(* The arguments and the destination of the last DecryptSuperblock call. *)
LastSrc == SrcArg(cop.src, xdec.b)

LastDstIn == DstArg(cop.dstIn)

LastDst == IF cop.dstSame THEN LastDstIn ELSE cop.dst

\* C1: File round-trip.  Whenever Encrypt(P) has run with a working random
\* source, it has returned nil, and decrypting the superblocks it produced one
\* by one with DecryptSuperblock under the same key, keeping from each the
\* number of content bytes its length byte gives, yields P.
C1_RoundTrip ==
    (cop.op = "Encrypt" /\ RandomSourceWorked) =>
        /\ cop.ret = "nil"
        /\ LET d == DecryptFile([b |-> xenc.b, cbc |-> Nil], settable, Produced(cop.c))
           IN  d.ret = "nil" /\ d.data = Bytes(PlainArg(cop.pt))

\* C3: Block count.  For a plaintext of n bytes Encrypt computes
\* blocksNeeded = ceiling(n / 239) and allocates exactly that many 256-byte
\* superblocks.
C3_BlockCount ==
    cop.op = "Encrypt" =>
        /\ cop.blocksNeeded = Ceil(cop.pt.n, ContentSize)
        /\ cop.c.cap = Ceil(cop.pt.n, ContentSize) * SuperblockSize

\* C4: Superblock decrypt on valid sizes.  A call DecryptSuperblock(dst, src)
\* with len(src) = 256 and len(dst) = 239 returns nil without faulting, and dst
\* then holds the 239 bytes that follow the length byte in the CBC decryption
\* of src[16:256] under the IV src[0:16].
C4_DecryptValidSizes ==
    (/\ cop.op = "DecryptSuperblock"
     /\ cop.src.n = SuperblockSize
     /\ cop.dstIn.n = ContentSize) =>
        /\ cop.ret = "nil"
        /\ LastDst = Tail(CBCDecrypt(xdec.b, SubSeq(LastSrc, 1, IVSize),
                                     SubSeq(LastSrc, IVSize + 1, SuperblockSize)))

\* C5: On-disk superblock layout.  After Encrypt(P) with a working random
\* source, for every block index i < ceiling(len(P) / 239) the output bytes
\* [256i, 256i+16) are the IV drawn for block i and the bytes
\* [256i+16, 256i+256) are the CBC encryption under that IV of the length byte
\* of chunk i followed by the chunk padded to 239 bytes.
C5_Layout ==
    (cop.op = "Encrypt" /\ RandomSourceWorked) =>
        /\ cop.ret = "nil"
        /\ \A i \in 0 .. Ceil(cop.pt.n, ContentSize) - 1 :
              /\ Len(cop.ivs) > i
              /\ LET out == Produced(cop.c)
                     iv  == cop.ivs[i + 1]
                 IN  /\ Len(out) >= (i + 1) * SuperblockSize
                     /\ SubSeq(out, i * SuperblockSize + 1, (i + 1) * SuperblockSize)
                          = Superblock(xenc.b, iv, Chunk(PlainArg(cop.pt), i))

\* C6: Size contract.  Every call DecryptSuperblock(dst, src) with
\* len(src) # 256 or len(dst) # 239 returns the size error, leaves dst as it
\* was and leaves the decrypter (its cached mode x.cbc included) unchanged, so
\* that a valid call made next gives what it would have given before.
C6_SizeContract ==
    [][(/\ ccalls' = ccalls + 1
        /\ cop'.op = "DecryptSuperblock"
        /\ (cop'.src.n # SuperblockSize \/ cop'.dstIn.n # ContentSize)) =>
            /\ cop'.ret = "err_size"
            /\ cop'.dstSame
            /\ xdec' = xdec
            /\ \A s \in Seeds :
                  DecryptSuperblock(xdec', settable, Pattern(s, ContentSize),
                                    Pattern(s, SuperblockSize))
                    = DecryptSuperblock(xdec, settable, Pattern(s, ContentSize),
                                        Pattern(s, SuperblockSize))]_vars

\* A rejected call on a decrypter whose mode is already cached.
C6_Witness ==
    /\ cop.op = "DecryptSuperblock"
    /\ cop.ret = "err_size"
    /\ cop.src.n = SuperblockSize + 1
    /\ xdec.cbc # Nil

C13_FreshIV ==
    [][(ccalls' = ccalls + 1 /\ cop'.op = "Encrypt") =>
          LET failing == cop'.failAt \in 0 .. cop'.blocksNeeded - 1
          IN  /\ \A i \in 1 .. Len(cop'.ivs) :
                    cop'.ivs[i] = RandIV(cop'.pt.seed, i - 1)
              /\ \A i, j \in 1 .. Len(cop'.ivs) : i # j => cop'.ivs[i] # cop'.ivs[j]
              /\ cop'.ret = "panic" =>
                    /\ Len(cop'.ivs) = cop'.done + 1
                    /\ xenc'.cbc = [iv |-> cop'.ivs[cop'.done + 1]]
              /\ (failing /\ cop'.done = cop'.failAt) =>
                    /\ cop'.ret = "err_rand"
                    /\ Len(cop'.ivs) = cop'.failAt
                    /\ Len(cop'.c.arr) <= cop'.failAt * SuperblockSize
                    /\ cop'.failAt = 0 => xenc' = xenc
              /\ cop'.ret = "err_rand" => (failing /\ cop'.done = cop'.failAt)]_vars

\* The random source fails for the first block of a non-empty plaintext, on
\* an encrypter that holds a mode, and its IV, from an earlier call.
C13_Witness ==
    /\ cop.op = "Encrypt"
    /\ cop.failAt = 0
    /\ cop.pt.n > 0
    /\ cop.ret = "err_rand"
    /\ xenc.cbc # Nil

\* C16: Encrypt never faults.  For every plaintext length and every block
\* index the loop visits, both slice expressions of the CryptBlocks call are
\* in range and CryptBlocks' preconditions hold, so Encrypt returns nil or a
\* random-source error.
C16_EncryptNeverFaults ==
    cop.op = "Encrypt" =>
        /\ cop.ret \in {"nil", "err_rand"}
        /\ \A i \in 0 .. cop.blocksNeeded - 1 :
              /\ ~SliceFaults(i * SuperblockSize + IVSize, i * SuperblockSize, cop.c.cap)
              /\ (i + 1) * ContentSize <= cop.pt.n
              /\ ~CryptBlocksFaults(0 - IVSize, ContentSize)

-----------------------------------------------------------------------------
(* The storage backend the vault decorates: items in a tree under a root,  *)
(* addressed by inner refs.  Item i of store has inner ref i; the root has *)
(* inner ref 0.  Any backend call may fail for the backend's own reasons   *)
(* (fail).  A name is [k, n]: the plaintext n as encrypted under key k, or *)
(* n itself when k is empty.                                               *)

InnerRoot == 0

ConfigName == "crypt.json"

PlainName(n) == [k |-> << >>, n |-> n]

IsFolder(st, id) ==
    \/ id = InnerRoot
    \/ id \in 1 .. Len(st) /\ st[id].live /\ st[id].kind = "folder"

IsFile(st, id) == id \in 1 .. Len(st) /\ st[id].live /\ st[id].kind = "file"

Children(st, where) ==
    SelectSeq([i \in 1 .. Len(st) |-> i],
              LAMBDA i : st[i].live /\ st[i].parent = where)

InnerList(st, where, fail) ==
    IF fail \/ ~IsFolder(st, where)
    THEN [err |-> "err_backend", ids |-> << >>]
    ELSE [err |-> "nil", ids |-> Children(st, where)]

InnerRef(st, where, name, fail) ==
    LET hits == {i \in 1 .. Len(st) :
                    st[i].live /\ st[i].parent = where /\ st[i].name = PlainName(name)}
    IN  IF fail \/ hits = {}
        THEN [err |-> "err_backend", id |-> -1]
        ELSE [err |-> "nil", id |-> CHOOSE i \in hits : \A j \in hits : i <= j]

InnerCreate(st, where, name, kind, fail) ==
    IF fail \/ ~IsFolder(st, where)
    THEN [err |-> "err_backend", id |-> -1, st |-> st]
    ELSE [err |-> "nil", id |-> Len(st) + 1,
          st |-> Append(st, [parent |-> where, name |-> name, kind |-> kind,
                             content |-> << >>, live |-> TRUE])]

InnerRead(st, id, fail) ==
    IF fail \/ ~IsFile(st, id)
    THEN [err |-> "err_backend", content |-> << >>]
    ELSE [err |-> "nil", content |-> st[id].content]

InnerWrite(st, id, bytes, fail) ==
    IF fail \/ ~IsFile(st, id)
    THEN [err |-> "err_backend", st |-> st]
    ELSE [err |-> "nil", st |-> [st EXCEPT ![id].content = bytes]]

InnerDelete(st, id, fail) ==
    IF fail \/ ~(id \in 1 .. Len(st) /\ st[id].live)
    THEN [err |-> "err_backend", st |-> st]
    ELSE [err |-> "nil", st |-> [st EXCEPT ![id].live = FALSE]]

-----------------------------------------------------------------------------
(* Package crypt as the vault uses it: key derivation, the configuration   *)
(* record, and the file and filename codecs.                               *)

ZeroSalt == 0
ZeroKDF == 0

(* The bytes of {"salt": s, "kdf_parameters": k}: '{', s, k, '}'. *)
ConfigBytes(salt, kdf) == <<123, salt, kdf, 125>>

EmptyObjectBytes == <<123, 125>>

MalformedBytes == <<110, 111>>

(* json.Unmarshal(bytes, &c) on a zero-valued c: the fields present are    *)
(* set; on a syntax error c is left as it was and the error returned.      *)
Unmarshal(bytes) ==
    IF Len(bytes) = 4 /\ bytes[1] = 123 /\ bytes[4] = 125
    THEN [err |-> "nil", salt |-> bytes[2], kdf |-> bytes[3]]
    ELSE IF bytes = EmptyObjectBytes
    THEN [err |-> "nil", salt |-> ZeroSalt, kdf |-> ZeroKDF]
    ELSE [err |-> "err_json", salt |-> ZeroSalt, kdf |-> ZeroKDF]

DeriveKey(password, salt, kdf) ==
    [i \in 1 .. KeySize |-> (password * 31 + salt * 17 + kdf * 7 + i * 13) % 256]

NewDecrypter(key) == NewXelaDecrypter(key)

NewEncrypter(key) ==
    IF Len(key) # KeySize
    THEN [x |-> Nil, ret |-> "err_key"]
    ELSE [x |-> [b |-> key, cbc |-> Nil], ret |-> "nil"]

LongName == "a-name-too-long-to-encode"

EncryptFilename(enc, name) ==
    IF name = LongName
    THEN [err |-> "err_name", name |-> PlainName("")]
    ELSE [err |-> "nil", name |-> [k |-> enc.b, n |-> name]]

DecryptFilename(dec, name) ==
    IF name.k = dec.b
    THEN [err |-> "nil", name |-> name.n]
    ELSE [err |-> "err_corrupt", name |-> ""]

(* EncryptFile(nil, data): the file codec's Encrypt on the whole data. *)
EncryptFile(enc, canSet, data, rnd) ==
    LET r == Encrypt(enc, canSet, [len |-> Len(data), cap |-> Len(data), arr |-> data], rnd)
    IN  [x |-> r.x, ret |-> r.ret,
         ciphertext |-> [i \in 1 .. r.c.len |-> ByteAt(r.c, i)]]

-----------------------------------------------------------------------------
(* Package cryptvault. *)

ZeroItemRef == [inner |-> InnerRoot, name |-> ""]

(* A call made to the backend, as recorded with the result of a vault call. *)
BCall(op, id, name, bytes) == [op |-> op, id |-> id, name |-> name, bytes |-> bytes]

Open(st, canSet, password, failRef, failRead) ==
    LET cryptJsonRef == InnerRef(st, InnerRoot, ConfigName, failRef)
        cryptJson    == InnerRead(st, cryptJsonRef.id, failRead)
        c            == Unmarshal(cryptJson.content)
        key          == DeriveKey(password, c.salt, c.kdf)
        enc          == NewEncrypter(key)
        dec          == NewDecrypter(key)
        refCall      == BCall("Ref", InnerRoot, PlainName(ConfigName), << >>)
        readCall     == BCall("Read", cryptJsonRef.id, PlainName(""), << >>)
    IN  IF cryptJsonRef.err # "nil"
        THEN [v |-> Nil, err |-> cryptJsonRef.err, calls |-> <<refCall>>]
        ELSE IF cryptJson.err # "nil"
        THEN [v |-> Nil, err |-> cryptJson.err, calls |-> <<refCall, readCall>>]
        ELSE IF enc.ret # "nil"
        THEN [v |-> Nil, err |-> enc.ret, calls |-> <<refCall, readCall>>]
        ELSE IF dec.ret # "nil"
        THEN [v |-> Nil, err |-> dec.ret, calls |-> <<refCall, readCall>>]
        ELSE [v |-> [inner |-> "inner", enc |-> enc.x, dec |-> dec.x],
              err |-> "nil", calls |-> <<refCall, readCall>>]

Root(v) == [inner |-> InnerRoot, name |-> ""]

decryptInnerRef(v, st, innerRef) ==
    LET d == DecryptFilename(v.dec, st[innerRef].name)
    IN  IF d.err # "nil"
        THEN [err |-> d.err, item |-> ZeroItemRef]
        ELSE [err |-> "nil", item |-> [inner |-> innerRef, name |-> d.name]]

RECURSIVE ListFrom(_, _, _, _, _)
ListFrom(v, st, repoItems, i, items) ==
    IF i > Len(repoItems) THEN [err |-> "nil", items |-> items]
    ELSE LET r == decryptInnerRef(v, st, repoItems[i])
         IN  IF r.err # "nil" THEN [err |-> r.err, items |-> << >>]
             ELSE ListFrom(v, st, repoItems, i + 1, Append(items, r.item))

RECURSIVE ListSkippingFrom(_, _, _, _, _)
ListSkippingFrom(v, st, repoItems, i, items) ==
    IF i > Len(repoItems) THEN [err |-> "nil", items |-> items]
    ELSE LET r == decryptInnerRef(v, st, repoItems[i])
         IN  ListSkippingFrom(v, st, repoItems, i + 1,
                              IF r.err # "nil" THEN items ELSE Append(items, r.item))

ListSkipping(v, st, where, fail) ==
    LET l == InnerList(st, where.inner, fail)
        r == ListSkippingFrom(v, st, l.ids, 1, << >>)
        calls == <<BCall("List", where.inner, PlainName(""), << >>)>>
    IN  IF l.err # "nil" THEN [err |-> l.err, items |-> << >>, calls |-> calls]
        ELSE [err |-> r.err, items |-> r.items, calls |-> calls]

List(v, st, where, fail) ==
    LET l == InnerList(st, where.inner, fail)
        r == ListFrom(v, st, l.ids, 1, << >>)
        calls == <<BCall("List", where.inner, PlainName(""), << >>)>>
    IN  IF l.err # "nil" THEN [err |-> l.err, items |-> << >>, calls |-> calls]
        ELSE [err |-> r.err, items |-> r.items, calls |-> calls]

(* A Ref that resolves the name by looking its encryption up in the backend. *)
RefResolving(v, st, where, name) ==
    LET e    == EncryptFilename(v.enc, name)
        hits == {i \in 1 .. Len(st) :
                    st[i].live /\ st[i].parent = where.inner /\ st[i].name = e.name}
        calls == <<BCall("Ref", where.inner, e.name, << >>)>>
    IN  IF e.err # "nil" THEN [err |-> e.err, item |-> ZeroItemRef, calls |-> << >>]
        ELSE IF hits = {} THEN [err |-> "err_backend", item |-> ZeroItemRef, calls |-> calls]
        ELSE [err |-> "nil", calls |-> calls,
              item |-> [inner |-> CHOOSE i \in hits : \A j \in hits : i <= j,
                        name |-> name]]

Ref(v, st, where, name) ==
    [err |-> "err_todo", item |-> ZeroItemRef, calls |-> << >>]

CreatePlainName(v, st, where, name, kind, fail) ==
    LET e == EncryptFilename(v.enc, name)
        c == InnerCreate(st, where.inner, PlainName(name), kind, fail)
        calls == <<BCall("Create", where.inner, PlainName(name), << >>)>>
    IN  IF e.err # "nil"
        THEN [err |-> e.err, item |-> ZeroItemRef, st |-> st, calls |-> << >>]
        ELSE IF c.err # "nil"
        THEN [err |-> c.err, item |-> ZeroItemRef, st |-> st, calls |-> calls]
        ELSE LET d == decryptInnerRef(v, c.st, c.id)
             IN  [err |-> d.err, item |-> d.item, st |-> c.st, calls |-> calls]

Create(v, st, where, name, kind, fail) ==
    LET e == EncryptFilename(v.enc, name)
        c == InnerCreate(st, where.inner, e.name, kind, fail)
        calls == <<BCall("Create", where.inner, e.name, << >>)>>
    IN  IF e.err # "nil"
        THEN [err |-> e.err, item |-> ZeroItemRef, st |-> st, calls |-> << >>]
        ELSE IF c.err # "nil"
        THEN [err |-> c.err, item |-> ZeroItemRef, st |-> st, calls |-> calls]
        ELSE LET d == decryptInnerRef(v, c.st, c.id)
             IN  [err |-> d.err, item |-> d.item, st |-> c.st, calls |-> calls]

Read(v, st, canSet, file, fail) ==
    LET r == InnerRead(st, file.inner, fail)
        calls == <<BCall("Read", file.inner, PlainName(""), << >>)>>
    IN  IF r.err # "nil" THEN [err |-> r.err, data |-> << >>, v |-> v, calls |-> calls]
        ELSE LET d == DecryptFile(v.dec, canSet, r.content)
             IN  [err |-> d.ret, data |-> d.data, v |-> [v EXCEPT !.dec = d.x],
                  calls |-> calls]

Write(v, st, canSet, file, data, rnd, fail) ==
    LET e  == EncryptFile(v.enc, canSet, data, rnd)
        w  == InnerWrite(st, file.inner, e.ciphertext, fail)
        v1 == [v EXCEPT !.enc = e.x]
    IN  IF e.ret # "nil" THEN [err |-> e.ret, st |-> st, v |-> v1, calls |-> << >>]
        ELSE [err |-> w.err, st |-> w.st, v |-> v1,
              calls |-> <<BCall("Write", file.inner, PlainName(""), e.ciphertext)>>]

(* A Delete that also removes what lies under the item. *)
DeleteSubtree(v, st, item, fail) ==
    LET d    == InnerDelete(st, item.inner, fail)
        kids == Children(st, item.inner)
    IN  [err |-> d.err,
         st |-> IF d.err # "nil" THEN st
                ELSE [i \in 1 .. Len(st) |->
                        IF st[i].parent = item.inner /\ item.inner # InnerRoot
                        THEN [st[i] EXCEPT !.live = FALSE] ELSE d.st[i]],
         calls |-> <<BCall("Delete", item.inner, PlainName(""), << >>)>>]

Delete(v, st, item, fail) ==
    LET d == InnerDelete(st, item.inner, fail)
    IN  [err |-> d.err, st |-> d.st,
         calls |-> <<BCall("Delete", item.inner, PlainName(""), << >>)>>]

(* Open(inner, password) where inner is itself a cryptvault v over the      *)
(* backend: Open's calls on inner are v's Ref and Read.  The three parts   *)
(* are Open's statements after the configuration was read, after it was   *)
(* resolved, and from the start.                                           *)
OpenOverConfig(cryptJsonBytes, password, calls) ==
    LET c   == Unmarshal(cryptJsonBytes)
        key == DeriveKey(password, c.salt, c.kdf)
        enc == NewEncrypter(key)
        dec == NewDecrypter(key)
    IN  IF enc.ret # "nil" THEN [v |-> Nil, err |-> enc.ret, calls |-> calls]
        ELSE IF dec.ret # "nil" THEN [v |-> Nil, err |-> dec.ret, calls |-> calls]
        ELSE [v |-> [inner |-> "cryptvault", enc |-> enc.x, dec |-> dec.x],
              err |-> "nil", calls |-> calls]

OpenOverRead(cryptJson, password, calls) ==
    IF cryptJson.err # "nil"
    THEN [v |-> Nil, err |-> cryptJson.err, calls |-> calls \o cryptJson.calls]
    ELSE OpenOverConfig(cryptJson.data, password, calls \o cryptJson.calls)

OpenOverRef(v, st, canSet, password, cryptJsonRef) ==
    IF cryptJsonRef.err # "nil"
    THEN [v |-> Nil, err |-> cryptJsonRef.err, calls |-> cryptJsonRef.calls]
    ELSE OpenOverRead(Read(v, st, canSet, cryptJsonRef.item, FALSE), password,
                      cryptJsonRef.calls)

OpenOver(v, st, canSet, password) ==
    OpenOverRef(v, st, canSet, password, Ref(v, st, Root(v), ConfigName))

-----------------------------------------------------------------------------
(* The vault's operations as steps, over a backend that may also change    *)
(* under the vault (another client of the same backend, or damage).        *)

MaxVaultCalls == 4

Passwords == {1, 2}
Names == {"a", "b", LongName}
Kinds == {"file", "folder"}
Datas == {<< >>, <<104, 105>>}
(* The backend before the first Open: the configuration item, present or   *)
(* not, well-formed or not.                                                *)
WellFormedConfig == ConfigBytes(3, 2)

Configs == {<< >>, WellFormedConfig, EmptyObjectBytes, MalformedBytes}

ConfigItem(bytes) ==
    [parent |-> InnerRoot, name |-> PlainName(ConfigName), kind |-> "file",
     content |-> bytes, live |-> TRUE]

(* What another client holding password p would store: one superblock, cut *)
(* short by a byte, or with its length byte damaged to 255.                *)
ForeignKinds == {"valid", "short", "badlen"}

ForeignData == <<104, 105>>

ForeignFiles ==
    [p \in Passwords, kind \in ForeignKinds |->
        LET key == DeriveKey(p, Unmarshal(WellFormedConfig).salt,
                             Unmarshal(WellFormedConfig).kdf)
            iv  == Pattern(p, IVSize)
            sb  == Superblock(key, iv, ForeignData)
        IN  IF kind = "short" THEN SubSeq(sb, 1, SuperblockSize - 1)
            ELSE IF kind = "badlen"
            THEN iv \o CBCEncrypt(key, iv, <<255>> \o PadTo(ForeignData, ContentSize))
            ELSE sb]

(* The random source during a Write: working, or failing at once. *)
WriteRands == {[seed |-> 1, failAt |-> f] : f \in {-1, 0}}

NoVaultCall ==
    [op |-> "none", err |-> "nil", ref |-> ZeroItemRef, name |-> "", kind |-> "",
     data |-> << >>, out |-> << >>, fail |-> FALSE, calls |-> << >>]

(* ghost.names[i]: the name passed to the Create that made item i ("" for  *)
(* the configuration item); ghost.written[i]: the data of the last         *)
(* successful Write to item i, as <<data>>, or << >>; ghost.foreign[i]:    *)
(* the password and kind of what was stored in item i behind the vault;    *)
(* ghost.pws: the passwords of the successful Opens; ghost.pw: that of the *)
(* last one.                                                               *)
VaultInit ==
    /\ \E bytes \in Configs :
          store = IF bytes = << >> THEN << >> ELSE <<ConfigItem(bytes)>>
    /\ vault = Nil
    /\ held = {}
    /\ vop = NoVaultCall
    /\ vcalls = 0
    /\ ghost = [names |-> [i \in 1 .. Len(store) |-> ""],
                written |-> [i \in 1 .. Len(store) |-> << >>],
                foreign |-> [i \in 1 .. Len(store) |-> [p |-> 0, kind |-> "none"]],
                pws |-> {}, pw |-> 0]
    /\ settable \in BOOLEAN
    /\ xdec = Nil /\ xenc = Nil /\ cop = NoCall /\ ccalls = 0
    /\ LauncherNotStarted

Refs == held \cup {Root(vault)}

CallOpen ==
    /\ vcalls < MaxVaultCalls
    /\ \E password \in Passwords, failRef \in BOOLEAN, failRead \in BOOLEAN :
          LET r == Open(store, settable, password, failRef, failRead)
          IN  /\ vault' = r.v
              /\ vop' = [NoVaultCall EXCEPT !.op = "Open", !.err = r.err,
                                            !.fail = failRef \/ failRead,
                                            !.calls = r.calls]
              /\ ghost' = IF r.err = "nil"
                          THEN [ghost EXCEPT !.pws = @ \cup {password}, !.pw = password]
                          ELSE ghost
    /\ vcalls' = vcalls + 1
    /\ UNCHANGED <<store, held, settable>>
    /\ UNCHANGED <<cvars, lvars>>

CallList ==
    /\ vcalls < MaxVaultCalls
    /\ vault # Nil
    /\ \E where \in Refs, fail \in BOOLEAN :
          LET r == List(vault, store, where, fail)
          IN  /\ vop' = [NoVaultCall EXCEPT !.op = "List", !.err = r.err,
                                            !.ref = where, !.out = r.items,
                                            !.fail = fail, !.calls = r.calls]
              /\ held' = held \cup {r.items[i] : i \in 1 .. Len(r.items)}
    /\ vcalls' = vcalls + 1
    /\ UNCHANGED <<store, vault, ghost, settable>>
    /\ UNCHANGED <<cvars, lvars>>

CallRef ==
    /\ vcalls < MaxVaultCalls
    /\ vault # Nil
    /\ \E where \in Refs, name \in Names \cup {ConfigName} :
          LET r == Ref(vault, store, where, name)
          IN  vop' = [NoVaultCall EXCEPT !.op = "Ref", !.err = r.err,
                                         !.ref = where, !.name = name,
                                         !.out = IF r.err = "nil" THEN <<r.item>>
                                                 ELSE << >>,
                                         !.calls = r.calls]
    /\ vcalls' = vcalls + 1
    /\ UNCHANGED <<store, vault, held, ghost, settable>>
    /\ UNCHANGED <<cvars, lvars>>

(* A second cryptvault is opened on top of the open one. *)
CallOpenLayered ==
    /\ vcalls < MaxVaultCalls
    /\ vault # Nil
    /\ \E password \in Passwords :
          LET r == OpenOver(vault, store, settable, password)
          IN  vop' = [NoVaultCall EXCEPT !.op = "OpenLayered", !.err = r.err,
                                         !.out = IF r.v = Nil THEN << >> ELSE <<r.v>>,
                                         !.calls = r.calls]
    /\ vcalls' = vcalls + 1
    /\ UNCHANGED <<store, vault, held, ghost, settable>>
    /\ UNCHANGED <<cvars, lvars>>

CallCreate ==
    /\ vcalls < MaxVaultCalls
    /\ vault # Nil
    /\ \E where \in Refs, name \in Names, kind \in Kinds, fail \in BOOLEAN :
          LET r == Create(vault, store, where, name, kind, fail)
              made == Len(r.st) > Len(store)
          IN  /\ store' = r.st
              /\ vop' = [NoVaultCall EXCEPT !.op = "Create", !.err = r.err,
                                            !.ref = where, !.name = name,
                                            !.kind = kind,
                                            !.out = IF r.err = "nil" THEN <<r.item>>
                                                    ELSE << >>,
                                            !.fail = fail, !.calls = r.calls]
              /\ held' = IF r.err = "nil" THEN held \cup {r.item} ELSE held
              /\ ghost' = IF made
                          THEN [ghost EXCEPT !.names = Append(@, name),
                                             !.written = Append(@, << >>),
                                             !.foreign = Append(@, [p |-> 0, kind |-> "none"])]
                          ELSE ghost
    /\ vcalls' = vcalls + 1
    /\ UNCHANGED <<vault, settable>>
    /\ UNCHANGED <<cvars, lvars>>

CallRead ==
    /\ vcalls < MaxVaultCalls
    /\ vault # Nil
    /\ \E file \in Refs, fail \in BOOLEAN :
          LET r == Read(vault, store, settable, file, fail)
          IN  /\ vault' = r.v
              /\ vop' = [NoVaultCall EXCEPT !.op = "Read", !.err = r.err,
                                            !.ref = file, !.out = r.data,
                                            !.fail = fail, !.calls = r.calls]
    /\ vcalls' = vcalls + 1
    /\ UNCHANGED <<store, held, ghost, settable>>
    /\ UNCHANGED <<cvars, lvars>>

CallWrite ==
    /\ vcalls < MaxVaultCalls
    /\ vault # Nil
    /\ \E file \in Refs, data \in Datas, fail \in BOOLEAN, rnd \in WriteRands :
          LET r == Write(vault, store, settable, file, data, rnd, fail)
          IN  /\ vault' = r.v
              /\ store' = r.st
              /\ vop' = [NoVaultCall EXCEPT !.op = "Write", !.err = r.err,
                                            !.ref = file, !.data = data,
                                            !.fail = fail, !.calls = r.calls]
              /\ ghost' = IF r.err = "nil"
                          THEN [ghost EXCEPT !.written[file.inner] = <<data>>,
                                             !.foreign[file.inner] = [p |-> 0, kind |-> "overwritten"]]
                          ELSE ghost
    /\ vcalls' = vcalls + 1
    /\ UNCHANGED <<held, settable>>
    /\ UNCHANGED <<cvars, lvars>>

CallDelete ==
    /\ vcalls < MaxVaultCalls
    /\ vault # Nil
    /\ \E item \in Refs, fail \in BOOLEAN :
          LET r == Delete(vault, store, item, fail)
          IN  /\ store' = r.st
              /\ vop' = [NoVaultCall EXCEPT !.op = "Delete", !.err = r.err,
                                            !.ref = item, !.fail = fail,
                                            !.calls = r.calls]
    /\ vcalls' = vcalls + 1
    /\ UNCHANGED <<vault, held, ghost, settable>>
    /\ UNCHANGED <<cvars, lvars>>

(* The backend's content changes behind the vault. *)
BackendChanges ==
    /\ vcalls < MaxVaultCalls
    /\ \E id \in 1 .. Len(store), p \in Passwords, kind \in ForeignKinds :
          /\ IsFile(store, id)
          /\ store[id].name # PlainName(ConfigName)
          /\ store' = [store EXCEPT ![id].content = ForeignFiles[p, kind]]
          /\ ghost' = [ghost EXCEPT !.written[id] = << >>,
                                    !.foreign[id] = [p |-> p, kind |-> kind]]
    /\ vop' = [NoVaultCall EXCEPT !.op = "BackendChanges"]
    /\ vcalls' = vcalls + 1
    /\ UNCHANGED <<vault, held, settable>>
    /\ UNCHANGED <<cvars, lvars>>

VaultNext ==
    \/ CallOpen
    \/ CallList
    \/ CallRef
    \/ CallOpenLayered
    \/ CallCreate
    \/ CallRead
    \/ CallWrite
    \/ CallDelete
    \/ BackendChanges

SpecVault == VaultInit /\ [][VaultNext]_vars

-----------------------------------------------------------------------------
(* Properties of the vault, checked under SpecVault. *)

ConfigBytesStored ==
    LET r == InnerRef(store, InnerRoot, ConfigName, FALSE)
    IN  IF r.err = "nil" THEN store[r.id].content ELSE << >>

ConfigWellFormed ==
    LET c == Unmarshal(ConfigBytesStored)
    IN  /\ InnerRef(store, InnerRoot, ConfigName, FALSE).err = "nil"
        /\ c.err = "nil"
        /\ c.salt # ZeroSalt
        /\ c.kdf # ZeroKDF

(* The history the read-after-write claim is about: one password, a       *)
(* well-formed configuration, no change made behind the vault.             *)
OneSession ==
    /\ ConfigWellFormed
    /\ Cardinality(ghost.pws) = 1
    /\ \A i \in 1 .. Len(store) : ghost.foreign[i].kind \in {"none", "overwritten"}

CreatedUnder(parent) ==
    LET ids == Children(store, parent)
    IN  SelectSeq(ids, LAMBDA i : ghost.names[i] # "")

\* C2: Read-after-write through the vault.  In a history of vault calls on
\* one opened vault, a Read of an existing file to which data was written
\* returns nil and the data of the last successful Write, and a List of the
\* root or of an existing folder returns nil and one entry per item created
\* under it and not deleted, carrying the name given to Create.
C2_ReadAfterWrite ==
    (OneSession /\ ~vop.fail) =>
        /\ (/\ vop.op = "Read"
            /\ IsFile(store, vop.ref.inner)
            /\ ghost.written[vop.ref.inner] # << >>) =>
                /\ vop.err = "nil"
                /\ vop.out = ghost.written[vop.ref.inner][1]
        /\ (vop.op = "List" /\ IsFolder(store, vop.ref.inner)) =>
                /\ vop.err = "nil"
                /\ LET ids == CreatedUnder(vop.ref.inner)
                   IN  vop.out = [i \in 1 .. Len(ids) |->
                                     [inner |-> ids[i], name |-> ghost.names[ids[i]]]]

\* C7: Open is all-or-nothing.  Open returns a vault exactly when it returns
\* a nil error, and it does so only when "crypt.json" was resolved, read and
\* parsed as a configuration holding a salt and KDF parameters, and the
\* vault's codecs hold the key derived from them.
C7_OpenAllOrNothing ==
    vop.op = "Open" =>
        /\ (vop.err = "nil") <=> (vault # Nil)
        /\ vault # Nil =>
              /\ ConfigWellFormed
              /\ ~vop.fail
              /\ vault.enc # Nil /\ vault.dec # Nil
              /\ vault.dec.b = DeriveKey(ghost.pw, Unmarshal(ConfigBytesStored).salt,
                                         Unmarshal(ConfigBytesStored).kdf)

Undecryptable(ids) ==
    \E i \in 1 .. Len(ids) : DecryptFilename(vault.dec, store[ids[i]].name).err # "nil"

\* C8: List is fail-fast.  A List call returns no items and an error when
\* the backend's List failed or some returned entry's name does not decrypt,
\* and otherwise a nil error and one outer ref per backend entry, in the
\* backend's order, wrapping that entry's inner ref with its decrypted name.
C8_ListFailFast ==
    vop.op = "List" =>
        LET l == InnerList(store, vop.ref.inner, vop.fail)
        IN  IF l.err # "nil" \/ Undecryptable(l.ids)
            THEN vop.err # "nil" /\ vop.out = << >>
            ELSE /\ vop.err = "nil"
                 /\ vop.out = [i \in 1 .. Len(l.ids) |->
                                  [inner |-> l.ids[i],
                                   name |-> DecryptFilename(vault.dec,
                                                            store[l.ids[i]].name).name]]

\* A successful listing of a folder holding an entry.
C8_Witness ==
    /\ vop.op = "List"
    /\ vop.err = "nil"
    /\ Len(vop.out) >= 1

\* A listing refused because of an entry that does not decrypt, next to one
\* that does.
C8_WitnessRefused ==
    /\ vop.op = "List"
    /\ ~vop.fail
    /\ vop.err = "err_corrupt"
    /\ LET ids == Children(store, vop.ref.inner)
       IN  \E i \in 1 .. Len(ids) :
              DecryptFilename(vault.dec, store[ids[i]].name).err = "nil"

WrittenUnderOtherPassword(id) ==
    /\ ghost.foreign[id].kind = "valid"
    /\ ghost.foreign[id].p # ghost.pw

\* C9: Wrong password.  On a vault opened with a password other than the
\* one the contents were encrypted under, a List of a non-empty folder and a
\* Read of a non-empty file each return the corruption error.
C9_WrongPassword ==
    (ConfigWellFormed /\ ~vop.fail) =>
        /\ (/\ vop.op = "Read"
            /\ IsFile(store, vop.ref.inner)
            /\ WrittenUnderOtherPassword(vop.ref.inner)) => vop.err = "err_corrupt"
        /\ (/\ vop.op = "List"
            /\ IsFolder(store, vop.ref.inner)
            /\ Children(store, vop.ref.inner) # << >>
            /\ \A i \in 1 .. Len(store) :
                  store[i].parent = vop.ref.inner => store[i].name.k # vault.dec.b)
                => vop.err = "err_corrupt"

LengthBytes(key, bytes) ==
    [i \in 1 .. Len(bytes) \div SuperblockSize |->
        LengthByte(key, SubSeq(bytes, (i - 1) * SuperblockSize + 1, i * SuperblockSize))]

Corrupted(key, bytes) ==
    \/ Len(bytes) % SuperblockSize # 0
    \/ \E i \in 1 .. Len(bytes) \div SuperblockSize : LengthBytes(key, bytes)[i] > ContentSize

\* C10: Corruption detection on read.  A Read of a file whose ciphertext is
\* not a whole number of superblocks, or holds a superblock whose length
\* byte exceeds 239, returns the corruption error and no plaintext.
C10_CorruptionDetected ==
    (/\ vop.op = "Read"
     /\ ~vop.fail
     /\ IsFile(store, vop.ref.inner)
     /\ Corrupted(vault.dec.b, store[vop.ref.inner].content)) =>
        /\ vop.err = "err_corrupt"
        /\ vop.out = << >>

(* A Create step passes the backend the encrypted name, or makes no call   *)
(* when the name does not encrypt.                                         *)
CreateSendsCiphertext ==
    (vcalls' = vcalls + 1 /\ vop'.op = "Create") =>
        LET e == EncryptFilename(vault.enc, vop'.name)
        IN  IF e.err # "nil"
            THEN vop'.calls = << >> /\ store' = store
            ELSE /\ Len(vop'.calls) = 1
                 /\ vop'.calls[1].op = "Create"
                 /\ vop'.calls[1].name = e.name

(* A Write step passes the backend what EncryptFile returned for the data, *)
(* or makes no call when EncryptFile did not return nil.                   *)
WriteSendsCiphertext ==
    (vcalls' = vcalls + 1 /\ vop'.op = "Write") =>
        \E rnd \in WriteRands :
            LET e == EncryptFile(vault.enc, settable, vop'.data, rnd)
            IN  IF e.ret # "nil"
                THEN vop'.calls = << >> /\ store' = store /\ vop'.err = e.ret
                ELSE /\ Len(vop'.calls) = 1
                     /\ vop'.calls[1].op = "Write"
                     /\ vop'.calls[1].bytes = e.ciphertext

NamesEncrypted(st, g) ==
    \A i \in 1 .. Len(st) : g.names[i] # "" => st[i].name # PlainName(g.names[i])

(* No item holds the data last written to it through the vault, for the    *)
(* written data that are in datas.                                         *)
ContentsEncrypted(st, g, datas) ==
    \A i \in 1 .. Len(st) :
        (g.written[i] # << >> /\ g.written[i][1] \in datas) =>
            st[i].content # g.written[i][1]

C12_WitnessRefused ==
    /\ vop.op = "Create"
    /\ vop.err = "err_name"
    /\ vop.calls = << >>

(* A Read, Write or Delete step: the outer refs are as they were, every    *)
(* backend call is the step's own operation on the inner ref of its ref,   *)
(* no other item of the backend differs, and a backend error is the error  *)
(* returned.                                                               *)
FrameStep ==
    (vcalls' = vcalls + 1 /\ vop'.op \in {"Read", "Write", "Delete"}) =>
        LET ref == vop'.ref
        IN  /\ held' = held
            /\ \A r \in held' : r.inner \in 1 .. Len(store')
            /\ \A k \in 1 .. Len(vop'.calls) :
                    vop'.calls[k].op = vop'.op /\ vop'.calls[k].id = ref.inner
            /\ Len(store') = Len(store)
            /\ \A i \in 1 .. Len(store) : i # ref.inner => store'[i] = store[i]
            /\ vop'.op = "Read" => store' = store
            /\ (Len(vop'.calls) = 1 /\ vop'.op = "Read") =>
                    LET r == InnerRead(store, ref.inner, vop'.fail)
                    IN  r.err # "nil" => vop'.err = r.err
            /\ (Len(vop'.calls) = 1 /\ vop'.op = "Write") =>
                    LET w == InnerWrite(store, ref.inner, vop'.calls[1].bytes, vop'.fail)
                    IN  vop'.err = w.err /\ store' = w.st
            /\ (Len(vop'.calls) = 1 /\ vop'.op = "Delete") =>
                    LET d == InnerDelete(store, ref.inner, vop'.fail)
                    IN  vop'.err = d.err /\ store' = d.st

\* C14: Addressing frame.  Each outer ItemRef wraps one inner ref that no
\* vault operation changes, and Read(ref), Write(ref, data) and Delete(ref)
\* each make exactly one backend call, on ref's inner ref; no other backend
\* item is read, written or deleted, and a backend error is returned to the
\* caller unchanged.
C14_ExactlyOneCall ==
    [][/\ FrameStep
       /\ (vcalls' = vcalls + 1 /\ vop'.op \in {"Read", "Write", "Delete"}) =>
              Len(vop'.calls) = 1]_vars

\* C14, amended: as above, Read and Delete making exactly one backend call
\* and Write making one when EncryptFile returned the ciphertext and none
\* when it did not.
C14_AddressingFrame ==
    [][/\ FrameStep
       /\ (vcalls' = vcalls + 1 /\ vop'.op \in {"Read", "Delete"}) =>
              Len(vop'.calls) = 1
       /\ WriteSendsCiphertext]_vars

\* A folder holding an item has been deleted through the vault.
C14_Witness ==
    /\ vop.op = "Delete"
    /\ vop.err = "nil"
    /\ \E i \in 1 .. Len(store) : store[i].live /\ store[i].parent = vop.ref.inner

\* A Write whose content encryption failed on a failing random source.
C14_WitnessNoCall ==
    /\ vop.op = "Write"
    /\ vop.err = "err_rand"
    /\ vop.calls = << >>

\* C15: Ref is unimplemented.  Vault.Ref(where, name) returns the zero
\* ItemRef and a non-nil error for every where and name, in every state of
\* the vault, and makes no backend call; and the Open of a cryptvault on top
\* of an open cryptvault fails with that error, nothing else having been
\* called.
C15_RefUnimplemented ==
    /\ vault # Nil =>
          \A where \in Refs, name \in Names \cup {ConfigName} :
              LET r == Ref(vault, store, where, name)
              IN  r.err # "nil" /\ r.item = ZeroItemRef /\ r.calls = << >>
    /\ vop.op = "Ref" =>
          vop.err # "nil" /\ vop.out = << >> /\ vop.calls = << >>
    /\ vop.op = "OpenLayered" =>
          /\ vop.err = Ref(vault, store, Root(vault), ConfigName).err
          /\ vop.err # "nil"
          /\ vop.out = << >>
          /\ vop.calls = << >>

\* Ref was asked for the name of an item that exists under the folder.
C15_Witness ==
    /\ vop.op = "Ref"
    /\ \E i \in 1 .. Len(store) :
          /\ store[i].live
          /\ store[i].parent = vop.ref.inner
          /\ ghost.names[i] = vop.name

\* A cryptvault was opened on top of a vault whose backend holds a
\* well-formed configuration.
C15_WitnessLayered ==
    /\ vop.op = "OpenLayered"
    /\ ConfigWellFormed

-----------------------------------------------------------------------------
(* The desktop launcher (package main): main, the goroutine that handles   *)
(* the server's errors, and the goroutine that runs http.Serve.  Each      *)
(* atomic operation on state is a step of its own; the goroutines          *)
(* interleave freely.  When main returns the process ends.                 *)

MinDynPort == 49152
MaxDynPort == 65535

MaxListenTries == 2

Ports == {MinDynPort, MaxDynPort}

ListenOutcomes == {"ok", "in_use", "err"}

ServeErrs == {"err_closed", "err_accept"}

SwapAlways(s, old, new) == [ok |-> TRUE, s |-> new]

(* state.CompareAndSwap(old, new) *)
CompareAndSwap(s, old, new) ==
    IF s = old THEN [ok |-> TRUE, s |-> new] ELSE [ok |-> FALSE, s |-> s]

Alive == pc.main # "exit"

LauncherInit ==
    /\ LauncherNotStarted
    /\ xdec = Nil /\ xenc = Nil /\ cop = NoCall /\ ccalls = 0
    /\ settable = FALSE
    /\ store = << >> /\ vault = Nil /\ held = {} /\ vcalls = 0
    /\ vop = [op |-> "none"] /\ ghost = [pws |-> {}]

(* main, up to state.Store(runningStateReady). *)
MainBegin ==
    /\ pc.main = "begin"
    /\ state' = runningStateReady
    /\ pc' = [pc EXCEPT !.main = "listen"]
    /\ UNCHANGED <<loc, view>>
    /\ UNCHANGED <<cvars, vvars, settable>>

(* One turn of startHttpServer's loop: a port is drawn and listened on;    *)
(* the address being in use, another is drawn; on another error the       *)
(* function returns it; else http.Serve is started in a goroutine.         *)
startHttpServer ==
    /\ pc.main = "listen"
    /\ \E port \in Ports, outcome \in ListenOutcomes :
          /\ outcome = "in_use" => loc.tries < MaxListenTries
          /\ loc' = [loc EXCEPT !.addr = port,
                                !.tries = IF outcome = "in_use" THEN @ + 1 ELSE @,
                                !.err = IF outcome = "err" THEN "err_listen" ELSE "nil"]
          /\ pc' = [pc EXCEPT !.main = IF outcome = "in_use" THEN "listen" ELSE "started",
                              !.serve = IF outcome = "ok" THEN "serving" ELSE @]
    /\ UNCHANGED <<state, view>>
    /\ UNCHANGED <<cvars, vvars, settable>>

(* if err != nil { state.Store(runningStateReadyDegraded) } *)
MainCheckErr ==
    /\ pc.main = "started"
    /\ state' = IF loc.err # "nil" THEN runningStateReadyDegraded ELSE state
    /\ pc' = [pc EXCEPT !.main = "go"]
    /\ UNCHANGED <<loc, view>>
    /\ UNCHANGED <<cvars, vvars, settable>>

(* go func() { for err := range serveErrors ... }() *)
MainGo ==
    /\ pc.main = "go"
    /\ pc' = [pc EXCEPT !.main = "navigate", !.handler = "range"]
    /\ UNCHANGED <<state, loc, view>>
    /\ UNCHANGED <<cvars, vvars, settable>>

(* w.Navigate("http://" + address) *)
Navigate ==
    /\ pc.main = "navigate"
    /\ view' = [view EXCEPT !.url = loc.addr]
    /\ pc' = [pc EXCEPT !.main = "swap"]
    /\ UNCHANGED <<state, loc>>
    /\ UNCHANGED <<cvars, vvars, settable>>

(* if !state.CompareAndSwap(runningStateReady, runningStateRunning) *)
MainCompareAndSwap ==
    /\ pc.main = "swap"
    /\ LET r == CompareAndSwap(state, runningStateReady, runningStateRunning)
       IN  /\ state' = r.s
           /\ pc' = [pc EXCEPT !.main = IF r.ok THEN "run" ELSE "store"]
    /\ UNCHANGED <<loc, view>>
    /\ UNCHANGED <<cvars, vvars, settable>>

(* state.Store(runningStateRunningDegraded), in main *)
MainStore ==
    /\ pc.main = "store"
    /\ state' = runningStateRunningDegraded
    /\ pc' = [pc EXCEPT !.main = "run"]
    /\ UNCHANGED <<loc, view>>
    /\ UNCHANGED <<cvars, vvars, settable>>

(* w.Run() returns, the window having been closed, and main with it. *)
RunReturns ==
    /\ pc.main = "run"
    /\ pc' = [pc EXCEPT !.main = "exit"]
    /\ UNCHANGED <<state, loc, view>>
    /\ UNCHANGED <<cvars, vvars, settable>>

(* http.Serve returns an error. *)
ServeReturns ==
    /\ Alive
    /\ pc.serve = "serving"
    /\ \E e \in ServeErrs : loc' = [loc EXCEPT !.recv = e]
    /\ pc' = [pc EXCEPT !.serve = "send"]
    /\ UNCHANGED <<state, view>>
    /\ UNCHANGED <<cvars, vvars, settable>>

(* bidiServeErrors <- err meets the range over serveErrors: the channel is *)
(* unbuffered, so the send and the receive are one step.                   *)
HandlerReceives ==
    /\ Alive
    /\ pc.serve = "send"
    /\ pc.handler = "range"
    /\ pc' = [pc EXCEPT !.serve = "done", !.handler = "swap"]
    /\ UNCHANGED <<state, loc, view>>
    /\ UNCHANGED <<cvars, vvars, settable>>

(* canceled := state.CompareAndSwap(runningStateReady, runningStateReadyDegraded) *)
HandlerCompareAndSwap ==
    /\ Alive
    /\ pc.handler = "swap"
    /\ LET r == CompareAndSwap(state, runningStateReady, runningStateReadyDegraded)
       IN  /\ state' = r.s
           /\ loc' = [loc EXCEPT !.canceled = r.ok,
                                 !.swapped = state = runningStateReady]
           /\ pc' = [pc EXCEPT !.handler = IF r.ok THEN "setHtml" ELSE "store"]
    /\ UNCHANGED view
    /\ UNCHANGED <<cvars, vvars, settable>>

(* state.Store(runningStateRunningDegraded), in the goroutine *)
HandlerStore ==
    /\ Alive
    /\ pc.handler = "store"
    /\ state' = runningStateRunningDegraded
    /\ pc' = [pc EXCEPT !.handler = "setHtml"]
    /\ UNCHANGED <<loc, view>>
    /\ UNCHANGED <<cvars, vvars, settable>>

(* w.SetHtml(message + err.Error()), and back to the range. *)
HandlerSetHtml ==
    /\ Alive
    /\ pc.handler = "setHtml"
    /\ view' = [view EXCEPT !.html =
                    Append(@, [message |-> IF loc.canceled THEN "couldn't be started"
                                           ELSE "crashed",
                               err |-> loc.recv])]
    /\ pc' = [pc EXCEPT !.handler = "range"]
    /\ UNCHANGED <<state, loc>>
    /\ UNCHANGED <<cvars, vvars, settable>>

MainNext ==
    \/ MainBegin
    \/ startHttpServer
    \/ MainCheckErr
    \/ MainGo
    \/ Navigate
    \/ MainCompareAndSwap
    \/ MainStore

HandlerNext ==
    \/ HandlerReceives
    \/ HandlerCompareAndSwap
    \/ HandlerStore
    \/ HandlerSetHtml

LauncherNext ==
    \/ MainNext
    \/ HandlerNext
    \/ ServeReturns
    \/ RunReturns

SpecLauncher == LauncherInit /\ [][LauncherNext]_vars

(* The scheduler runs every goroutine that can run.  The server need not   *)
(* ever fail and the window need not ever be closed.                       *)
SpecLauncherFair ==
    /\ LauncherInit
    /\ [][LauncherNext]_vars
    /\ WF_vars(MainNext)
    /\ WF_vars(HandlerNext)

-----------------------------------------------------------------------------
(* Properties of the launcher. *)

Degraded(st) == st \in {runningStateReadyDegraded, runningStateRunningDegraded}

IsRunning(st) == st \in {runningStateRunning, runningStateRunningDegraded}

(* main has executed its CompareAndSwap and, that having failed, its Store. *)
MainSwapped == pc.main \in {"run", "exit"}

(* The goroutine has received a serve error and finished its update of the *)
(* state for it.                                                           *)
ServeErrorHandled ==
    \/ Len(view.html) > 0
    \/ pc.handler = "setHtml"

\* C17: The launcher's state is monotone under every interleaving of main and
\* the serve-error goroutine: it never goes from a degraded value to a
\* non-degraded one, nor from a Running value to a Ready one; once main has
\* executed its CompareAndSwap / Store after Navigate the state is Running or
\* RunningDegraded, and RunningDegraded if the server failed to start or a
\* serve error has been handled.
C17_Monotone ==
    [][/\ Degraded(state) => Degraded(state')
       /\ IsRunning(state) => IsRunning(state')
       /\ MainSwapped' => IsRunning(state')
       /\ (MainSwapped' /\ (loc'.err # "nil" \/ ServeErrorHandled')) =>
              state' = runningStateRunningDegraded]_vars

\* The goroutine handles a serve error after main has set the state to
\* Running: its CompareAndSwap fails and it stores RunningDegraded.
C17_Witness ==
    /\ MainSwapped
    /\ Len(view.html) > 0
    /\ ~loc.canceled
    /\ state = runningStateRunningDegraded

\* The serve error is handled before main's CompareAndSwap, which then fails.
C17_WitnessCanceled ==
    /\ MainSwapped
    /\ loc.canceled
    /\ state = runningStateRunningDegraded

Reported == Len(view.html) > 0

\* C18: Degradation is always reported.  In every execution in which the
\* state takes a degraded value, w.SetHtml is eventually called with an error
\* message (unless the window is closed first); and the message is the
\* "couldn't be started" one exactly when the goroutine's CompareAndSwap from
\* Ready to ReadyDegraded succeeded, the "crashed" one otherwise.
C18_DegradationReported ==
    /\ [](Degraded(state) => <>(Reported \/ ~Alive))
    /\ [](\A i \in 1 .. Len(view.html) :
             /\ view.html[i].message \in {"couldn't be started", "crashed"}
             /\ view.html[i].message = "couldn't be started" <=> loc.swapped)

\* The part of C18 about which message is shown.
MessageMatchesSwap ==
    \A i \in 1 .. Len(view.html) :
        view.html[i].message = "couldn't be started" <=> loc.swapped

\* The part of C18 about serve errors: a serve error that the goroutine has
\* received is reported.
ServeErrorReported ==
    (pc.handler = "swap") ~> (Reported \/ ~Alive)

=============================================================================
